---- MODULE Spec2Model ----
(***************************************************************************)
(* PulseStream-Connect: the InstructionsModal component and its CodeBlock. *)
(*                                                                         *)
(* The repository holds two revisions of the component:                    *)
(*   "steps"  src/components/InstructionsModal.tsx (one CodeBlock per       *)
(*            InstructionStep, seven commands)                             *)
(*   "joined" src/unnamed/part_000 (two CodeBlocks, each holding the lines  *)
(*            of one machine joined by newlines)                           *)
(* Both are modelled; `revision` says which one is mounted.                *)
(*                                                                         *)
(* A text is a sequence of fragments (strings); the empty text is << >>.   *)
(* A React node handed to CodeBlock as children is                         *)
(*   [kind |-> "string", items |-> <<text>>]   a single string child       *)
(*   [kind |-> "array",  items |-> texts]      an array of string children *)
(*                                                                         *)
(* Time is in milliseconds.  Timer callbacks run at the instant they are   *)
(* due: advancing the clock runs, in order, the callbacks that have become *)
(* due (the event loop with an exact timer source).                        *)
(***************************************************************************)
EXTENDS Integers, Sequences, FiniteSets, TLC

\* ------------------------------------------------------------------ bounds

\* Clicks the user makes while the component is mounted.
MaxClicks == 2
\* Copy buttons the user clicks (the first MaxBlocks code blocks rendered).
MaxBlocks == 2
\* The horizon of the clock, in ms.
MaxTime == 3000

\* ---------------------------------------------------------------- constants

\* setTimeout(() => setCopied(false), 2000)
ResetDelay == 2000

\* ------------------------------------------------------------------- texts

Str(t) == [kind |-> "string", items |-> <<t>>]

Arr(ts) == [kind |-> "array", items |-> ts]

RECURSIVE Concat(_)
\* The texts of a sequence, one after the other.
Concat(ts) == IF ts = << >> THEN << >> ELSE Head(ts) \o Concat(Tail(ts))

RECURSIVE Join(_, _)
\* Array.prototype.join: the items with the separator between neighbours.
Join(ts, sep) ==
    IF ts = << >> THEN << >>
    ELSE IF Len(ts) = 1 THEN ts[1]
    ELSE ts[1] \o <<sep>> \o Join(Tail(ts), sep)

\* String(children): a string is itself, an array is its items joined by ",".
JSString(node) == Join(node.items, ",")

\* !children: of the nodes modelled only the empty string is falsy.
Falsy(node) == node.kind = "string" /\ node.items[1] = << >>

\* What <code>{children}</code> shows: React renders array items adjacent.
DisplayText(node) == Concat(node.items)

\* sub occurs in text as a run of neighbouring fragments.
Contains(text, sub) ==
    \E i \in 0..(Len(text) - Len(sub)) :
        \A j \in 1..Len(sub) : text[i + j] = sub[j]

\* --------------------------------------------------------------- rendering

Connections ==
    { [name |-> "Office", serverIp |-> "10.0.0.5", clientIp |-> "10.0.0.9"],
      [name |-> "Lab", serverIp |-> "192.168.1.20", clientIp |-> "192.168.1.31"] }

\* A template literal `...${connection.f}...`: each hole takes the field's value.
Lit(s) == [hole |-> FALSE, s |-> s]

Hole(f) == [hole |-> TRUE, s |-> f]

Field(c, f) ==
    CASE f = "name" -> c.name
      [] f = "serverIp" -> c.serverIp
      [] f = "clientIp" -> c.clientIp

Render(template, c) ==
    [i \in 1..Len(template) |->
        IF template[i].hole THEN Field(c, template[i].s) ELSE template[i].s]

\* The command props of the seven InstructionSteps, in document order.
StepCommands ==
    << <<Lit("firewall-cmd --get-default-zone")>>,
       <<Lit("sudo firewall-cmd --zone=$(firewall-cmd --get-default-zone) --add-port=4713/tcp --permanent")>>,
       <<Lit("sudo firewall-cmd --reload && sudo firewall-cmd --zone=$(firewall-cmd --get-default-zone) --list-ports")>>,
       <<Lit("pactl load-module module-native-protocol-tcp "), Lit("auth-ip-acl=127.0.0.1;"), Hole("clientIp")>>,
       <<Lit("nc -zv "), Hole("serverIp"), Lit(" 4713")>>,
       <<Lit("export PULSE_SERVER=tcp:"), Hole("serverIp")>>,
       <<Lit("mpv --ao=pulse \"https://www.youtube.com/watch?v=dQw4w9WgXcQ\"")>> >>

\* {command && <CodeBlock>{command}</CodeBlock>}: no code block for an empty command.
InstructionStep(command) == IF command = << >> THEN << >> ELSE <<Str(command)>>

RECURSIVE StepBlocks(_, _)
\* The code blocks of the steps, in document order.
StepBlocks(commands, c) ==
    IF commands = << >> THEN << >>
    ELSE InstructionStep(Render(Head(commands), c)) \o StepBlocks(Tail(commands), c)

\* The lines of serverCommands.  Every line is a quoted string, the last one
\* too: its ${connection.clientIp} is text, not a hole.
ServerLines ==
    << <<Lit("# 1. Open PulseAudio Port (4713/tcp) on the server.")>>,
       <<Lit("# This allows the client machine to connect to the PulseAudio daemon.")>>,
       <<Lit("sudo firewall-cmd --add-port=4713/tcp --permanent")>>,
       << >>,
       <<Lit("# 2. Reload the firewall to apply the new rule.")>>,
       <<Lit("sudo firewall-cmd --reload")>>,
       << >>,
       <<Lit("# 3. Verify the port is open.")>>,
       <<Lit("# You should see 4713/tcp in the output list.")>>,
       <<Lit("sudo firewall-cmd --list-ports")>>,
       << >>,
       <<Lit("# NOTE: You may also need to edit /etc/pulse/default.pa on the server to load the TCP module.")>>,
       <<Lit("# Add this line: load-module module-native-protocol-tcp "), Lit("auth-ip-acl=127.0.0.1;"), Lit("${connection.clientIp}")>> >>

\* The lines of clientCommands: template literals.
ClientLines ==
    << <<Lit("# 1. Test connection to the server's PulseAudio port.")>>,
       <<Lit("# If this command says \"succeeded!\", you're ready for the next step.")>>,
       <<Lit("nc -zv "), Hole("serverIp"), Lit(" 4713")>>,
       << >>,
       <<Lit("# 2. Set the PULSE_SERVER environment variable.")>>,
       <<Lit("# This tells applications on this client machine to send their audio to the server.")>>,
       <<Lit("export PULSE_SERVER=tcp:"), Hole("serverIp")>>,
       << >>,
       <<Lit("# 3. Test with an application, like mpv.")>>,
       <<Lit("# The video will play locally, but the audio should come from the server's speakers.")>>,
       <<Lit("mpv --vo=x11 --ao=pulse https://www.youtube.com/watch?v=dQw4w9WgXcQ")>> >>

\* [...].join('\n') of the rendered lines.
JoinedCommands(lines, c) == Join([i \in 1..Len(lines) |-> Render(lines[i], c)], "\n")

\* The children of the code blocks InstructionsModal renders, in document order.
ModalBlocks(rev, c) ==
    IF rev = "steps" THEN StepBlocks(StepCommands, c)
    ELSE <<Str(JoinedCommands(ServerLines, c)), Str(JoinedCommands(ClientLines, c))>>

\* Which of those blocks stand under "On the Server Machine".
ServerBlocks(rev) == IF rev = "steps" THEN 1..4 ELSE {1}

\* Which stand under "On the Client Machine".
ClientBlocks(rev) == IF rev = "steps" THEN 5..7 ELSE {2}

\* ------------------------------------------------------------------- state

VARIABLES
    revision,      \* "steps" or "joined": which source file is mounted
    root,          \* "InstructionsModal", or "CodeBlock" mounted on its own
    props,         \* the props of the root component
    mounted,       \* the component is in the tree
    now,           \* the clock, ms
    copied,        \* copied[b]: the useState flag of code block b
    writes,        \* clipboard writes in flight: [block, text]
    timers,        \* pending setTimeout callbacks, oldest first: [block, due]
    clipboard,     \* the text on the system clipboard
    onCloseCalls,  \* how often the parent's onClose was invoked
    staleUpdates,  \* setCopied calls made after the block was unmounted
    clicksOn,      \* clicksOn[t]: clicks the user made on element t
    issued,        \* issued[b]: writeText calls made by block b
    successes,     \* successes[b]: the instants a write of block b was fulfilled
    rejected       \* clipboard writes that were rejected

vars ==
    <<revision, root, props, mounted, now, copied, writes, timers,
      clipboard, onCloseCalls, staleUpdates, clicksOn, issued, successes, rejected>>

Revisions == {"steps", "joined"}

\* Children a test mounts a lone CodeBlock with.
TestChildren ==
    { Str(<< >>),
      Str(<<" ls -la ", "\n">>),
      Arr(<< <<"echo a">>, <<"echo b">>, <<"echo c">> >>) }

\* children[b]: the children prop of code block b, in document order.
children ==
    IF root = "InstructionsModal" THEN ModalBlocks(revision, props.connection)
    ELSE <<props.children>>

Blocks == 1..Len(children)

\* The label of the copy button: {copied ? 'Copied!' : <ClipboardIcon />}.
Label(b) == IF copied[b] THEN "Copied!" ELSE "ClipboardIcon"

\* --------------------------------------------------------------- the tree

El(kind, b) == [kind |-> kind, block |-> b]

Min(a, b) == IF a < b THEN a ELSE b

CopyButtons == { El("copy", b) : b \in 1..Min(MaxBlocks, Len(children)) }

\* The elements the user clicks.
Targets ==
    IF root = "InstructionsModal"
    THEN {El("backdrop", 0), El("panel", 0), El("close", 0)} \cup CopyButtons
    ELSE CopyButtons

\* The nearest ancestor that has a click handler; "none" above the root.
Parent(el) ==
    CASE el.kind = "backdrop" -> El("none", 0)
      [] el.kind = "panel" -> El("backdrop", 0)
      [] el.kind = "close" -> El("panel", 0)
      [] el.kind = "copy" ->
            IF root = "InstructionsModal" THEN El("panel", 0) ELSE El("none", 0)

\* Handler, had the panel no onClick that stops the propagation.
HandlerWithoutStop(el) ==
    CASE el.kind = "backdrop" -> "onClose"
      [] el.kind = "panel" -> "none"
      [] el.kind = "close" -> "onClose"
      [] el.kind = "copy" -> "handleCopy"

\* The onClick of each element.
Handler(el) ==
    CASE el.kind = "backdrop" -> "onClose"
      [] el.kind = "panel" -> "stopPropagation"
      [] el.kind = "close" -> "onClose"
      [] el.kind = "copy" -> "handleCopy"

RECURSIVE Bubble(_)
\* The handlers a click on el runs: its own, then its ancestors', until one
\* stops the propagation.
Bubble(el) ==
    IF el.kind = "none" THEN << >>
    ELSE IF Handler(el) = "stopPropagation" THEN <<Handler(el)>>
    ELSE <<Handler(el)>> \o Bubble(Parent(el))

Count(seq, x) == Cardinality({i \in 1..Len(seq) : seq[i] = x})

\* --------------------------------------------------------------- CodeBlock

\* TextToCopy, had it stripped the line breaks of the text.
TextToCopyStripped(rev, node) == SelectSeq(JSString(node), LAMBDA f : f # "\n")

\* textToCopy: "joined" joins an array by newlines, "steps" converts with String.
TextToCopy(rev, node) ==
    IF rev = "joined" /\ node.kind = "array" THEN Join(node.items, "\n")
    ELSE JSString(node)

\* if (!children) return;  -- only "steps" has the guard.
CopyReturnsEarly(rev, node) == rev = "steps" /\ Falsy(node)

\* handleCopy of block b: the writes in flight after it.
HandleCopy(b) ==
    IF CopyReturnsEarly(revision, children[b]) THEN writes
    ELSE Append(writes, [block |-> b, text |-> TextToCopy(revision, children[b])])

\* setCopied(v) of block b: React drops an update of an unmounted component.
SetCopied(flags, b, v) == IF mounted THEN [flags EXCEPT ![b] = v] ELSE flags

\* ScheduleReset, with a delay of 1000 ms.
ScheduleResetEarly(b) == Append(timers, [block |-> b, due |-> now + 1000])

\* ScheduleReset, had the callback forgotten the timer.
ScheduleResetNever(b) == timers

\* setTimeout(() => setCopied(false), 2000) of block b: the timers after it.
\* Nothing is cancelled and the handle is not kept.
ScheduleReset(b) == Append(timers, [block |-> b, due |-> now + ResetDelay])

Remove(seq, i) == SubSeq(seq, 1, i - 1) \o SubSeq(seq, i + 1, Len(seq))

\* ------------------------------------------------------------------ actions

Init ==
    /\ revision \in Revisions
    /\ root \in {"InstructionsModal", "CodeBlock"}
    /\ \/ /\ root = "InstructionsModal"
          /\ \E c \in Connections : props = [connection |-> c]
       \/ /\ root = "CodeBlock"
          /\ \E node \in TestChildren : props = [children |-> node]
    /\ mounted = TRUE
    /\ now = 0
    /\ copied = [b \in 1..Len(children) |-> FALSE]
    /\ writes = << >>
    /\ timers = << >>
    /\ clipboard = << >>
    /\ onCloseCalls = 0
    /\ staleUpdates = 0
    /\ clicksOn = [t \in Targets |-> 0]
    /\ issued = [b \in 1..Len(children) |-> 0]
    /\ successes = [b \in 1..Len(children) |-> << >>]
    /\ rejected = 0

RECURSIVE Sum(_, _)
Sum(f, S) == IF S = {} THEN 0 ELSE LET x == CHOOSE x \in S : TRUE IN f[x] + Sum(f, S \ {x})

\* The user clicks element t: the handlers on the way up run in one task.
Click(t) ==
    /\ mounted
    /\ Sum(clicksOn, DOMAIN clicksOn) < MaxClicks
    /\ clicksOn' = [clicksOn EXCEPT ![t] = @ + 1]
    /\ LET hs == Bubble(t) IN
        /\ onCloseCalls' = onCloseCalls + Count(hs, "onClose")
        /\ IF Count(hs, "handleCopy") > 0
           THEN /\ writes' = HandleCopy(t.block)
                /\ issued' = [issued EXCEPT ![t.block] = @ + Len(writes') - Len(writes)]
           ELSE UNCHANGED <<writes, issued>>
    /\ UNCHANGED <<revision, root, props, mounted, now, copied, timers,
                   clipboard, staleUpdates, successes, rejected>>

\* writeText of writes[i] is fulfilled: the text is on the clipboard and the
\* then-callback runs: setCopied(true); setTimeout(..., 2000).
WriteFulfilled(i) ==
    /\ i \in 1..Len(writes)
    /\ now + ResetDelay <= MaxTime
    /\ LET w == writes[i] IN
        /\ clipboard' = w.text
        /\ copied' = SetCopied(copied, w.block, TRUE)
        /\ staleUpdates' = IF mounted THEN staleUpdates ELSE staleUpdates + 1
        /\ timers' = ScheduleReset(w.block)
        /\ successes' = [successes EXCEPT ![w.block] = Append(@, now)]
    /\ writes' = Remove(writes, i)
    /\ UNCHANGED <<revision, root, props, mounted, now, onCloseCalls,
                   clicksOn, issued, rejected>>

\* WriteRejected, had the callback been registered for the rejection too.
WriteRejectedRunsCallback(i) ==
    /\ i \in 1..Len(writes)
    /\ now + ResetDelay <= MaxTime
    /\ copied' = SetCopied(copied, writes[i].block, TRUE)
    /\ timers' = ScheduleReset(writes[i].block)
    /\ writes' = Remove(writes, i)
    /\ rejected' = rejected + 1
    /\ UNCHANGED <<revision, root, props, mounted, now, clipboard, onCloseCalls,
                   staleUpdates, clicksOn, issued, successes>>

\* writeText of writes[i] is rejected: the promise has no rejection handler.
WriteRejected(i) ==
    /\ i \in 1..Len(writes)
    /\ writes' = Remove(writes, i)
    /\ rejected' = rejected + 1
    /\ UNCHANGED <<revision, root, props, mounted, now, copied, timers,
                   clipboard, onCloseCalls, staleUpdates, clicksOn, issued, successes>>

\* The instants the clock is looked at.
Instants == {t \in 0..MaxTime : t % 1000 \in {0, 999}}

\* The timers due by instant t.
Due(t) == SelectSeq(timers, LAMBDA tm : tm.due <= t)

RECURSIVE RunTimers(_, _)
\* () => setCopied(false), for each timer of ts in turn.
RunTimers(flags, ts) ==
    IF ts = << >> THEN flags
    ELSE RunTimers(SetCopied(flags, Head(ts).block, FALSE), Tail(ts))

\* The clock reaches instant t; the timer callbacks due by then have run.
AdvanceTo(t) ==
    /\ t \in Instants
    /\ t > now
    /\ now' = t
    /\ copied' = RunTimers(copied, Due(t))
    /\ staleUpdates' = IF mounted THEN staleUpdates ELSE staleUpdates + Len(Due(t))
    /\ timers' = SelectSeq(timers, LAMBDA tm : tm.due > t)
    /\ UNCHANGED <<revision, root, props, mounted, writes, clipboard,
                   onCloseCalls, clicksOn, issued, successes, rejected>>

\* The parent removes the component from the tree.  CodeBlock registers no
\* cleanup: writes in flight and pending timers stay as they are.
Unmount ==
    /\ mounted
    /\ mounted' = FALSE
    /\ UNCHANGED <<revision, root, props, now, copied, writes, timers,
                   clipboard, onCloseCalls, staleUpdates, clicksOn, issued,
                   successes, rejected>>

\* The clock moves on.
Advance == \E t \in Instants : AdvanceTo(t)

Next ==
    \/ \E t \in Targets : Click(t)
    \/ \E i \in 1..Len(writes) : WriteFulfilled(i)
    \/ \E i \in 1..Len(writes) : WriteRejected(i)
    \/ Advance
    \/ Unmount

Spec == Init /\ [][Next]_vars

\* The event loop runs a timer callback once it is due.
LiveSpec == Spec /\ WF_vars(Advance)

\* ------------------------------------------------------------------ claims

\* The ids of the code blocks whose copy button is clicked.
BlockIds == 1..MaxBlocks

PendingTimers(b) == {i \in 1..Len(timers) : timers[i].block = b}

IsCommandString(b) == children[b].kind = "string" /\ DisplayText(children[b]) # << >>

IsCopied(b) == b \in Blocks /\ copied[b]

\* C1: two fulfilled copies of one mounted block less than 2000 ms apart keep
\* the label "Copied!" from the first one until exactly 2000 ms after the
\* second one, and not longer.
C1_LabelHeldUntilLastReset ==
    \A b \in Blocks :
        (mounted /\ Len(successes[b]) = 2
                 /\ successes[b][2] < successes[b][1] + 2000)
        => (Label(b) = "Copied!" <=> now < successes[b][2] + 2000)

\* C2: once a code block is unmounted no timer is left pending and no
\* setCopied is ever called on it.
C2_NoUpdateAfterUnmount ==
    /\ ~mounted => timers = << >>
    /\ staleUpdates = 0

\* C3: after the only fulfilled copy of a mounted block the label is
\* "Copied!" from the completion up to 1999 ms after it, and the default label
\* from 2000 ms on.
C3_SingleCopyWindow ==
    \A b \in Blocks :
        (mounted /\ Len(successes[b]) = 1)
        => (Label(b) = "Copied!" <=> now <= successes[b][1] + 1999)

C3_Witness ==
    /\ mounted
    /\ \E b \in Blocks :
        /\ Len(successes[b]) = 1
        /\ now = successes[b][1] + 2000
        /\ Label(b) = "ClipboardIcon"

\* C4: a rejected clipboard write leaves the copied flags and the pending
\* timers as they were, issues no further write (no retry) and counts as no
\* success; it only leaves the writes in flight.
C4_RejectionChangesNothing ==
    [][rejected' # rejected =>
        /\ copied' = copied
        /\ timers' = timers
        /\ issued' = issued
        /\ successes' = successes
        /\ clipboard' = clipboard
        /\ Len(writes') = Len(writes) - 1]_vars

C4_Witness ==
    /\ mounted
    /\ rejected = 1
    /\ writes = << >>
    /\ \E b \in Blocks : issued[b] = 1 /\ ~copied[b] /\ PendingTimers(b) = {}

\* C5: a copy action on a block showing a non-empty command string S issues
\* exactly one clipboard write, whose text is S; when a write of the block is
\* fulfilled the clipboard holds S.
C5_ClipboardHoldsCommand ==
    [][\A t \in CopyButtons :
        IsCommandString(t.block) =>
            /\ clicksOn'[t] # clicksOn[t] =>
                 writes' = Append(writes, [block |-> t.block,
                                           text |-> DisplayText(children[t.block])])
            /\ successes'[t.block] # successes[t.block] =>
                 clipboard' = DisplayText(children[t.block])]_vars

C5_Witness ==
    /\ root = "CodeBlock"
    /\ children[1] = Str(<<" ls -la ", "\n">>)
    /\ issued[1] = 1
    /\ Len(successes[1]) = 1
    /\ clipboard = <<" ls -la ", "\n">>

\* C6: onClose has been invoked once for every click on the backdrop and once
\* for every click on the close control, and for no other click (clicks on the
\* panel and on copy buttons stop at the panel); a click never unmounts the
\* modal by itself.
C6_ClicksInvokeOnClose == 
    /\ [](root = "InstructionsModal" =>
            onCloseCalls = clicksOn[El("backdrop", 0)] + clicksOn[El("close", 0)])
    /\ [][clicksOn' # clicksOn => mounted' = mounted]_vars

C6_Witness ==
    /\ root = "InstructionsModal"
    /\ clicksOn[El("close", 0)] = 1
    /\ clicksOn[El("copy", 1)] = 1
    /\ onCloseCalls = 1

\* A ${...} placeholder left in a rendered text.
IsPlaceholder(fragment) ==
    fragment \in {"${connection.name}", "${connection.serverIp}", "${connection.clientIp}"}

\* C7: the server commands hold auth-ip-acl=127.0.0.1; followed by the client
\* IP, the client commands hold nc -zv <serverIp> 4713 and
\* export PULSE_SERVER=tcp:<serverIp>, and no command text holds a literal
\* ${...} placeholder.
C7_CommandsSubstituted ==
    root = "InstructionsModal" =>
        LET c == props.connection
            text(b) == DisplayText(children[b])
        IN  /\ \E b \in ServerBlocks(revision) :
                 Contains(text(b), <<"auth-ip-acl=127.0.0.1;", c.clientIp>>)
            /\ \E b \in ClientBlocks(revision) :
                 Contains(text(b), <<"nc -zv ", c.serverIp, " 4713">>)
            /\ \E b \in ClientBlocks(revision) :
                 Contains(text(b), <<"export PULSE_SERVER=tcp:", c.serverIp>>)
            /\ \A b \in Blocks : \A i \in 1..Len(text(b)) : ~IsPlaceholder(text(b)[i])

C9_AtMostOneTimer == \A b \in Blocks : Cardinality(PendingTimers(b)) <= 1

\* C10: the flag of a mounted block starts false, turns true only when a write
\* of the block is fulfilled, is true only while a reset timer of the block is
\* pending, and, timers firing when due, always returns to false.
C10_FlagAlwaysResets ==
    /\ \A b \in BlockIds : ~IsCopied(b)
    /\ [][\A b \in Blocks :
            (~copied[b] /\ copied'[b]) => successes'[b] # successes[b]]_vars
    /\ [](\A b \in BlockIds :
            (mounted /\ IsCopied(b)) => PendingTimers(b) # {})
    /\ \A b \in BlockIds :
            (mounted /\ IsCopied(b)) ~> (~mounted \/ ~IsCopied(b))

C10_Witness ==
    /\ mounted
    /\ timers = << >>
    /\ \E b \in Blocks : Len(successes[b]) = 2 /\ ~copied[b]
====
